---- MODULE Spec2Model ----
(***************************************************************************)
(* Model of sim.py: the damage/growth ODE right-hand side, the simulate   *)
(* call around scipy's solve_ivp, the first-passage scan find_crash_time  *)
(* and the two-run parameter sweep of the __main__ script.                 *)
(*                                                                         *)
(* Numbers.  Python floats are modelled as fixed-point integers: the real *)
(* v is the integer v*S.  A magnitude above MaxMag, and the result of a   *)
(* division by zero, is the reserved code NonFinite (the model's inf/nan).*)
(* Sample times are kept exactly, as numerators over NumSamples-1.        *)
(*                                                                         *)
(* Solver.  solve_ivp is called with its default method and tolerances    *)
(* (rtol = 1e-3).  Its integration is modelled as one explicit step of    *)
(* the right-hand side per requested sample time, with values resolved to *)
(* 1/S, the order of the solver's own tolerance.  A step that meets a     *)
(* non-finite value stops the solver with status -1.                      *)
(***************************************************************************)
EXTENDS Integers, Sequences, FiniteSets, TLC

\* ------------------------------------------------------------------ bounds
S == 1000              \* fixed-point scale: the real 1.0
MaxMag == 46000        \* largest finite magnitude (46.0); MaxMag^2 fits TLC's integers
MaxLen == 3            \* longest hand-made trajectory given to find_crash_time

\* --------------------------------------------------------- program constants
Horizon == 6           \* t_span = (0, 6)
NumSamples == 100      \* np.linspace(*t_span, 100)

NonFinite == MaxMag + 1
None == {}
Some(v) == {v}

ParamNames == {"k", "T", "alpha", "c", "x0", "y0", "r"}

\* --------------------------------------------------------- float arithmetic
Abs(a) == IF a < 0 THEN -a ELSE a

IsFinite(a) == a # NonFinite

\* a / b for integers, b > 0, rounded to nearest
RDiv(a, b) ==
  LET q == a \div b
      m == a % b
  IN IF 2 * m >= b THEN q + 1 ELSE q

Clamp(v) == IF Abs(v) > MaxMag THEN NonFinite ELSE v

Add(a, b) == IF IsFinite(a) /\ IsFinite(b) THEN Clamp(a + b) ELSE NonFinite

Sub(a, b) == IF IsFinite(a) /\ IsFinite(b) THEN Clamp(a - b) ELSE NonFinite

Mul(a, b) == IF IsFinite(a) /\ IsFinite(b) THEN Clamp(RDiv(a * b, S)) ELSE NonFinite

Div(a, b) ==
  IF ~(IsFinite(a) /\ IsFinite(b)) \/ b = 0 THEN NonFinite
  ELSE IF b > 0 THEN Clamp(RDiv(a * S, b))
  ELSE Clamp(RDiv(-(a * S), -b))

\* float * bool: True is 1, False is 0; inf * 0 is nan
MulBool(a, b) == IF ~IsFinite(a) THEN NonFinite ELSE IF b THEN a ELSE 0

\* a < b on floats: every comparison with nan is False
Less(a, b) == IsFinite(a) /\ IsFinite(b) /\ a < b

\* ------------------------------------------------------------------- model
\* variant: the gate written with <= (open at exact equality)
gate_le(y, T) == IF IsFinite(y) /\ IsFinite(T) /\ y <= T THEN 1 ELSE 0

\* the indicator (y < T) that multiplies the growth term
gate(y, T) == IF Less(y, T) THEN 1 ELSE 0

\* variant: the concentration c dropped from the damage equilibrium
bacterial_growth_noc(t, state, k, T, alpha, c, r) ==
  LET y == state[1]
      x == state[2]
      dy_dt == Mul(r, Sub(alpha, y))
      dx_dt == MulBool(Mul(Mul(r, x), Sub(S, Div(x, k))), gate(y, T) = 1)
  IN <<dy_dt, dx_dt>>

\* variant: the growth term without its gate factor
bacterial_growth_ungated(t, state, k, T, alpha, c, r) ==
  LET y == state[1]
      x == state[2]
      dy_dt == Mul(r, Sub(Mul(alpha, c), y))
      dx_dt == Mul(Mul(r, x), Sub(S, Div(x, k)))
  IN <<dy_dt, dx_dt>>

\* variant: the damage relaxation with its sign flipped
bacterial_growth_sign(t, state, k, T, alpha, c, r) ==
  LET y == state[1]
      x == state[2]
      dy_dt == Mul(r, Sub(y, Mul(alpha, c)))
      dx_dt == MulBool(Mul(Mul(r, x), Sub(S, Div(x, k))), gate(y, T) = 1)
  IN <<dy_dt, dx_dt>>

bacterial_growth(t, state, k, T, alpha, c, r) ==
  LET y == state[1]
      x == state[2]
      dy_dt == Mul(r, Sub(Mul(alpha, c), y))
      dx_dt == MulBool(Mul(Mul(r, x), Sub(S, Div(x, k))), gate(y, T) = 1)
  IN <<dy_dt, dx_dt>>

\* np.linspace(a, b, n), each time as a numerator over n - 1
linspace(a, b, n) == [i \in 1..n |-> a * (n - 1) + (i - 1) * (b - a)]

t_eval == linspace(0, Horizon, NumSamples)

\* one solver advance of length Horizon/(NumSamples-1) along derivative d
StepInc(d) == IF IsFinite(d) THEN RDiv(Horizon * d, NumSamples - 1) ELSE NonFinite

\* ------------------------------------------------------------- crash time
\* variant: the scan with a strict comparison
RECURSIVE crash_scan_strict(_, _, _, _)
crash_scan_strict(t, y, T, i) ==
  IF i > Len(y) THEN None
  ELSE IF y[i] > T THEN Some(t[i])
  ELSE crash_scan_strict(t, y, T, i + 1)

RECURSIVE crash_scan(_, _, _, _)
crash_scan(t, y, T, i) ==
  IF i > Len(y) THEN None
  ELSE IF y[i] >= T THEN Some(t[i])
  ELSE crash_scan(t, y, T, i + 1)

find_crash_time(t, y, T) == crash_scan(t, y, T, 1)

\* max() of a non-empty sequence
max(s) == CHOOSE m \in {s[i] : i \in 1..Len(s)} : \A i \in 1..Len(s) : s[i] <= m

\* variant: the smaller of the two
max2_min(a, b) == IF a >= b THEN b ELSE a

max2(a, b) == IF a >= b THEN a ELSE b


\* ------------------------------------------------------------------- state
VARIABLES
  pc,                   \* position in the script / in the simulate call
  free_param,           \* sidebar selectbox
  fixed_values,         \* dict of the six fixed sliders
  free_param_value_1,   \* slider "free_param_1"
  free_param_value_2,   \* slider "free_param_2"
  params_1, params_2,   \* keyword arguments of the two simulate calls
  args,                 \* arguments bound in the running simulate call
  sol_state,            \* the solver's current [y, x]
  sol_status,           \* "idle", "running", "finished" (0) or "failed" (-1)
  sol_t, sol_y, sol_x,  \* solution.t, solution.y[0], solution.y[1] so far
  rhs_evals,            \* calls of bacterial_growth in the running simulate call
  t1, y1, x1,           \* result of simulate(**params_1)
  t2, y2, x2,           \* result of simulate(**params_2)
  crash_time_1, crash_time_2,
  max_x, max_y,
  ylim                  \* upper limits set on ax1, ax2, ax3, ax4

vars == <<pc, free_param, fixed_values, free_param_value_1, free_param_value_2,
          params_1, params_2, args, sol_state, sol_status, sol_t, sol_y, sol_x,
          rhs_evals, t1, y1, x1, t2, y2, x2, crash_time_1, crash_time_2,
          max_x, max_y, ylim>>

inputVars == <<free_param, fixed_values, free_param_value_1, free_param_value_2>>
solverVars == <<args, sol_state, sol_status, sol_t, sol_y, sol_x, rhs_evals>>
resultVars == <<t1, y1, x1, t2, y2, x2>>
plotVars == <<crash_time_1, crash_time_2, max_x, max_y, ylim>>

EmptyDict == [p \in {} |-> 0]

\* d[key] = v on a dict
DictSet(d, key, v) == [p \in (DOMAIN d) \cup {key} |-> IF p = key THEN v ELSE d[p]]

\* d.copy()
DictCopy(d) == [p \in DOMAIN d |-> d[p]]

\* values the sliders can deliver, inside parameter_ranges (min, max, default, step)
SliderValues(p) ==
  CASE p = "k"     -> {S \div 2, S}
    [] p = "T"     -> {(3 * S) \div 10, S \div 2}
    [] p = "alpha" -> {(5 * S) \div 2}
    [] p = "c"     -> {S \div 10, S \div 5}
    [] p = "x0"    -> {S \div 10}
    [] p = "y0"    -> {0}
    [] p = "r"     -> {S, 2 * S}

\* values a direct caller of simulate can pass: no range is enforced there
ArgValues(p) ==
  CASE p = "k"     -> {-(S \div 10), 0, S}
    [] p = "T"     -> {0, (3 * S) \div 10, S \div 2}
    [] p = "alpha" -> {(5 * S) \div 2}
    [] p = "c"     -> {0, S \div 5}
    [] p = "x0"    -> {S \div 10}
    [] p = "y0"    -> {0, (2 * S) \div 5}
    [] p = "r"     -> {0, S, 2 * S}

InitCommon ==
  /\ free_param = "none"
  /\ fixed_values = EmptyDict
  /\ free_param_value_1 = 0
  /\ free_param_value_2 = 0
  /\ params_2 = EmptyDict
  /\ args = EmptyDict
  /\ sol_state = <<0, 0>>
  /\ sol_status = "idle"
  /\ sol_t = <<>> /\ sol_y = <<>> /\ sol_x = <<>>
  /\ rhs_evals = 0
  /\ t2 = <<>> /\ y2 = <<>> /\ x2 = <<>>
  /\ crash_time_1 = None /\ crash_time_2 = None
  /\ max_x = 0 /\ max_y = 0
  /\ ylim = [ax1 |-> 1, ax2 |-> 1, ax3 |-> 1, ax4 |-> 1]

\* the script, after "params_1 = {}; params_2 = {}"
Init ==
  /\ pc = "inputs"
  /\ params_1 = EmptyDict
  /\ t1 = <<>> /\ y1 = <<>> /\ x1 = <<>>
  /\ InitCommon

\* ------------------------------------------------------ parameter collection
\* the selectbox and the eight sliders
Inputs ==
  /\ pc = "inputs"
  /\ \E fp \in ParamNames :
       \E vk \in SliderValues("k"), vT \in SliderValues("T"), va \in SliderValues("alpha"),
          vc \in SliderValues("c"), vx \in SliderValues("x0"), vy \in SliderValues("y0"),
          vr \in SliderValues("r") :
         \E v1 \in SliderValues(fp), v2 \in SliderValues(fp) :
           LET all == [k |-> vk, T |-> vT, alpha |-> va, c |-> vc, x0 |-> vx, y0 |-> vy, r |-> vr]
           IN /\ free_param' = fp
              /\ fixed_values' = [p \in ParamNames \ {fp} |-> all[p]]
              /\ free_param_value_1' = v1
              /\ free_param_value_2' = v2
  /\ pc' = "copy1"
  /\ UNCHANGED <<params_1, params_2, solverVars, resultVars, plotVars>>

\* params_1 = fixed_values.copy()
Copy1 ==
  /\ pc = "copy1"
  /\ params_1' = DictCopy(fixed_values)
  /\ pc' = "copy2"
  /\ UNCHANGED <<inputVars, params_2, solverVars, resultVars, plotVars>>

\* params_2 = fixed_values.copy()
Copy2 ==
  /\ pc = "copy2"
  /\ params_2' = DictCopy(fixed_values)
  /\ pc' = "set1"
  /\ UNCHANGED <<inputVars, params_1, solverVars, resultVars, plotVars>>

\* params_1[free_param] = free_param_value_1
Set1 ==
  /\ pc = "set1"
  /\ params_1' = DictSet(params_1, free_param, free_param_value_1)
  /\ pc' = "set2"
  /\ UNCHANGED <<inputVars, params_2, solverVars, resultVars, plotVars>>

\* variant: params_2 is the same dict object as params_1 (no copy was made)
Set2Aliased ==
  /\ pc = "set2"
  /\ params_2' = DictSet(params_2, free_param, free_param_value_2)
  /\ params_1' = params_2'
  /\ pc' = "call1"
  /\ UNCHANGED <<inputVars, solverVars, resultVars, plotVars>>

\* params_2[free_param] = free_param_value_2
Set2 ==
  /\ pc = "set2"
  /\ params_2' = DictSet(params_2, free_param, free_param_value_2)
  /\ pc' = "call1"
  /\ UNCHANGED <<inputVars, params_1, solverVars, resultVars, plotVars>>

\* ------------------------------------------------------------------ simulate
\* entry of simulate(**p): t_span, t_eval, and solve_ivp given [y0, x0]
Call(p, next) ==
  /\ args' = p
  /\ sol_state' = <<p["y0"], p["x0"]>>
  /\ sol_status' = "running"
  /\ sol_t' = <<>> /\ sol_y' = <<>> /\ sol_x' = <<>>
  /\ rhs_evals' = 0
  /\ pc' = next
  /\ UNCHANGED <<inputVars, params_1, params_2, resultVars, plotVars>>

Call1 == pc = "call1" /\ Call(params_1, "solve1")

Call2 == pc = "call2" /\ Call(params_2, "solve2")

\* solve_ivp advances to the next time of t_eval.  A step whose derivative or
\* new state is not finite cannot meet the tolerance: the solver stops with
\* status -1 and keeps the samples it has.  The first successful step also
\* delivers the sample at t = 0.
SolverStep ==
  /\ pc \in {"solve1", "solve2"}
  /\ sol_status = "running"
  /\ LET f == bacterial_growth(0, sol_state, args["k"], args["T"], args["alpha"], args["c"], args["r"])
         y_new == Add(sol_state[1], StepInc(f[1]))
         x_new == Add(sol_state[2], StepInc(f[2]))
         n == Len(sol_t)
     IN /\ rhs_evals' = rhs_evals + 1
        /\ IF IsFinite(y_new) /\ IsFinite(x_new)
           THEN /\ sol_state' = <<y_new, x_new>>
                /\ IF n = 0
                   THEN /\ sol_t' = <<t_eval[1], t_eval[2]>>
                        /\ sol_y' = <<sol_state[1], y_new>>
                        /\ sol_x' = <<sol_state[2], x_new>>
                   ELSE /\ sol_t' = Append(sol_t, t_eval[n + 1])
                        /\ sol_y' = Append(sol_y, y_new)
                        /\ sol_x' = Append(sol_x, x_new)
                /\ sol_status' = IF Len(sol_t') = NumSamples THEN "finished" ELSE "running"
           ELSE /\ sol_status' = "failed"
                /\ UNCHANGED <<sol_state, sol_t, sol_y, sol_x>>
  /\ UNCHANGED <<pc, args, inputVars, params_1, params_2, resultVars, plotVars>>

\* return solution.t, solution.y[0], solution.y[1]: solution.status is not read.
\* When no sample was delivered solution.y is an empty list and y[0] raises.
Return1 ==
  /\ pc = "solve1"
  /\ sol_status \in {"finished", "failed"}
  /\ IF Len(sol_t) = 0
     THEN pc' = "IndexError" /\ UNCHANGED <<t1, y1, x1>>
     ELSE pc' = "call2" /\ t1' = sol_t /\ y1' = sol_y /\ x1' = sol_x
  /\ UNCHANGED <<inputVars, params_1, params_2, solverVars, t2, y2, x2, plotVars>>

Return2 ==
  /\ pc = "solve2"
  /\ sol_status \in {"finished", "failed"}
  /\ IF Len(sol_t) = 0
     THEN pc' = "IndexError" /\ UNCHANGED <<t2, y2, x2>>
     ELSE pc' = "plot1" /\ t2' = sol_t /\ y2' = sol_y /\ x2' = sol_x
  /\ UNCHANGED <<inputVars, params_1, params_2, solverVars, t1, y1, x1, plotVars>>

\* ------------------------------------------------------------------ plotting
\* axvline(x): a time is drawn; for None matplotlib either rejects the value
\* with a TypeError or draws nothing, depending on its version
AxvlineNext(x, next) == IF x = None THEN {"TypeError", next} ELSE {next}

\* upper subplot: crash_time_1 = find_crash_time(t1, y1, params_1["T"]); axvline
Plot1 ==
  /\ pc = "plot1"
  /\ crash_time_1' = find_crash_time(t1, y1, params_1["T"])
  /\ pc' \in AxvlineNext(crash_time_1', "plot2")
  /\ UNCHANGED <<inputVars, params_1, params_2, solverVars, resultVars,
                 crash_time_2, max_x, max_y, ylim>>

\* lower subplot: crash_time_2 = find_crash_time(t2, y2, params_2["T"]); axvline
Plot2 ==
  /\ pc = "plot2"
  /\ crash_time_2' = find_crash_time(t2, y2, params_2["T"])
  /\ pc' \in AxvlineNext(crash_time_2', "limits")
  /\ UNCHANGED <<inputVars, params_1, params_2, solverVars, resultVars,
                 crash_time_1, max_x, max_y, ylim>>

\* headroom factor 1.1
Headroom == S + S \div 10

\* max_x, max_y and the four set_ylim(0, max * 1.1) calls
Limits ==
  /\ pc = "limits"
  /\ max_x' = max2(max(x1), max(x2))
  /\ max_y' = max2(max(y1), max(y2))
  /\ ylim' = [ax1 |-> Mul(max_x', Headroom), ax3 |-> Mul(max_x', Headroom),
              ax2 |-> Mul(max_y', Headroom), ax4 |-> Mul(max_y', Headroom)]
  /\ pc' = "done"
  /\ UNCHANGED <<inputVars, params_1, params_2, solverVars, resultVars,
                 crash_time_1, crash_time_2>>

Next ==
  \/ Inputs \/ Copy1 \/ Copy2 \/ Set1 \/ Set2
  \/ Call1 \/ Call2 \/ SolverStep \/ Return1 \/ Return2
  \/ Plot1 \/ Plot2 \/ Limits

Spec == Init /\ [][Next]_vars

\* ------------------------------------------- simulate called on its own
InitSimulate ==
  /\ pc = "call1"
  /\ params_1 \in [k : ArgValues("k"), T : ArgValues("T"), alpha : ArgValues("alpha"),
                    c : ArgValues("c"), x0 : ArgValues("x0"), y0 : ArgValues("y0"),
                    r : ArgValues("r")]
  /\ t1 = <<>> /\ y1 = <<>> /\ x1 = <<>>
  /\ InitCommon

NextSimulate == Call1 \/ SolverStep \/ Return1

SpecSimulate == InitSimulate /\ [][NextSimulate]_vars

\* ------------------------------------ find_crash_time called on its own
Increasing(s) == \A i \in 1..(Len(s) - 1) : s[i] < s[i + 1]

SeqsUpTo(vals, n) == UNION {[1..m -> vals] : m \in 0..n}

DefaultParams ==
  [k |-> S, T |-> (3 * S) \div 10, alpha |-> (5 * S) \div 2, c |-> S \div 5,
   x0 |-> S \div 10, y0 |-> 0, r |-> S]

InitDetect ==
  /\ pc = "plot1"
  /\ t1 \in {s \in SeqsUpTo(0..(MaxLen + 1), MaxLen) : Increasing(s)}
  /\ y1 \in {s \in SeqsUpTo(-1..2, MaxLen) : Len(s) = Len(t1)}
  /\ x1 = [i \in 1..Len(t1) |-> 0]
  /\ \E T \in -1..2 : params_1 = [DefaultParams EXCEPT !["T"] = T]
  /\ InitCommon

NextDetect == Plot1

SpecDetect == InitDetect /\ [][NextDetect]_vars


\* ================================================================= claims
Min(A) == CHOOSE m \in A : \A a \in A : m <= a

\* find_crash_time(t1, y1, T) has been evaluated
Detected1 == pc \in {"plot2", "TypeError", "limits", "done"}

\* simulate(**params_1) has returned its three arrays
Returned1 == pc = "call2"

\* the domain constraints on the seven parameters
InDomain(p) ==
  /\ p["r"] > 0 /\ p["k"] > 0 /\ p["T"] >= 0 /\ p["alpha"] >= 0
  /\ p["c"] >= 0 /\ p["x0"] >= 0 /\ p["y0"] >= 0

\* C1: find_crash_time returns t[i] for the smallest i with y[i] >= T (every
\* earlier sample is below T), and returns None exactly when no sample has
\* y[i] >= T, the empty trajectory included.
C1_FirstCrossing ==
  Detected1 =>
    LET T == params_1["T"]
        hits == {i \in 1..Len(y1) : y1[i] >= T}
    IN IF hits = {}
       THEN crash_time_1 = None
       ELSE \E i \in hits :
              /\ \A j \in 1..(i - 1) : y1[j] < T
              /\ crash_time_1 = Some(t1[i])
              /\ crash_time_1 # None

\* a crossing at the second of three samples, met with equality
C1_Witness ==
  /\ Detected1
  /\ Len(y1) = 3
  /\ y1[1] < params_1["T"] /\ y1[2] = params_1["T"] /\ y1[3] > params_1["T"]
  /\ crash_time_1 = Some(t1[2])

\* C2: simulate called with a parameter outside its domain (k = 0, r <= 0)
\* never evaluates the right-hand side, never returns a trajectory and
\* ends in no other outcome than InvalidParameter.
C2_RejectedBeforeIntegration ==
  ~InDomain(params_1) =>
    /\ rhs_evals = 0
    /\ pc \notin {"call2", "IndexError"}

\* C3: simulate returns a trajectory only when the solver reached the end of
\* the horizon; a solver that stopped early is never answered with the
\* samples it had.
C3_NoPartialTrajectory ==
  Returned1 => sol_status = "finished"

\* C4: every trajectory simulate returns has exactly 100 samples on the
\* evenly spaced, strictly increasing grid from 0 to the horizon, and the
\* damage and density arrays have one value per sample time.
C4_FullGrid ==
  Returned1 =>
    /\ Len(t1) = NumSamples /\ Len(y1) = NumSamples /\ Len(x1) = NumSamples
    /\ t1[1] = 0
    /\ t1[NumSamples] = Horizon * (NumSamples - 1)
    /\ \A i \in 1..(NumSamples - 1) : t1[i] < t1[i + 1]
    /\ \A i \in 1..(NumSamples - 1) : t1[i + 1] - t1[i] = t1[2] - t1[1]

\* C5: the two parameter sets of a sweep hold all seven parameters, agree with
\* the fixed value on the six parameters other than the free one, carry value
\* 1 and value 2 on the free one, and completing the second set leaves the
\* first as it was.
C5_SweepParams ==
  /\ pc \notin {"inputs", "copy1", "copy2", "set1"} =>
       /\ DOMAIN params_1 = ParamNames
       /\ params_1[free_param] = free_param_value_1
       /\ \A p \in ParamNames \ {free_param} : params_1[p] = fixed_values[p]
  /\ pc \notin {"inputs", "copy1", "copy2", "set1", "set2"} =>
       /\ DOMAIN params_2 = ParamNames
       /\ params_2[free_param] = free_param_value_2
       /\ \A p \in ParamNames \ {free_param} :
            params_2[p] = fixed_values[p] /\ params_2[p] = params_1[p]

\* both sets built, with two different values of the free parameter
C5_Witness ==
  /\ pc = "call1"
  /\ free_param_value_1 # free_param_value_2
  /\ params_1[free_param] = free_param_value_1
  /\ params_2[free_param] = free_param_value_2

\* C6: the density bound is 1.1 times the larger of the two runs' peak x, the
\* damage bound 1.1 times the larger peak y (to within one fixed-point unit),
\* both plots get the same two bounds, and with a non-negative peak no sample
\* of either run lies above its bound.
C6_AxisBounds ==
  pc = "done" =>
    LET xs == {x1[i] : i \in 1..Len(x1)} \cup {x2[i] : i \in 1..Len(x2)}
        ys == {y1[i] : i \in 1..Len(y1)} \cup {y2[i] : i \in 1..Len(y2)}
    IN /\ max_x \in xs /\ \A v \in xs : v <= max_x
       /\ max_y \in ys /\ \A v \in ys : v <= max_y
       /\ ylim.ax1 = ylim.ax3 /\ ylim.ax2 = ylim.ax4
       /\ Abs(10 * ylim.ax1 - 11 * max_x) <= 10
       /\ Abs(10 * ylim.ax2 - 11 * max_y) <= 10
       /\ max_x >= 0 => \A v \in xs : v <= ylim.ax1
       /\ max_y >= 0 => \A v \in ys : v <= ylim.ax2

\* the two runs peak at different densities and the second run holds the peak
C6_Witness ==
  /\ pc = "done"
  /\ max(x1) < max(x2)
  /\ max_x = max(x2)
  /\ ylim.ax1 > max_x

\* the end-to-end scenario r=1, k=1, T=0.5, alpha=2.5, c=0.2, x0=0.1, y0=0
Scenario ==
  [k |-> S, T |-> S \div 2, alpha |-> (5 * S) \div 2, c |-> S \div 5,
   x0 |-> S \div 10, y0 |-> 0, r |-> S]

\* C7 as stated: in the scenario the damage reaches T = 0.5 within the
\* horizon, so find_crash_time returns a time and not the absent value.
C7_ScenarioCrashes ==
  (Detected1 /\ params_1 = Scenario) => crash_time_1 # None

\* C7 amended: in the scenario the damage rises from 0 to within a tenth of
\* 0.5 but stays strictly below T = 0.5 at every one of the 100 samples, so
\* find_crash_time returns None.
C7_ScenarioNeverCrashes ==
  (Detected1 /\ params_1 = Scenario) =>
    /\ Len(y1) = NumSamples
    /\ \A i \in 1..NumSamples : y1[i] < Scenario["T"]
    /\ y1[1] < y1[NumSamples]
    /\ 10 * y1[NumSamples] >= 9 * Scenario["T"]
    /\ crash_time_1 = None

\* the scenario has been simulated and scanned
C7_Witness ==
  /\ Detected1
  /\ params_1 = Scenario
  /\ Len(y1) = NumSamples
  /\ y1[NumSamples] > 0
  /\ crash_time_1 = None

====
